---------------------------- MODULE Spec2Model ----------------------------
(***************************************************************************)
(* SurveyLensAI: the CSV ingestion, the sequential classification queue    *)
(* and the filter of the results, as a state machine over the component's  *)
(* signals and the pending asynchronous work (FileReader loads, Analyzer   *)
(* calls, inter-call delays).                                              *)
(*                                                                         *)
(* A text is a sequence of one-character strings; a field, a header name   *)
(* and an object key are strings.  A JavaScript object is a function from  *)
(* its keys to their values, so that a CSV column named like a result      *)
(* field lands on the same key, as it does in the code.                    *)
(***************************************************************************)
EXTENDS Integers, Sequences, FiniteSets, TLC

\* ------------------------------------------------------------------ bounds
\* Longest text drawn in SpecCsv.
MaxTextLen == 4
\* startAnalysis is invoked at most this many times in a behaviour of Spec.
MaxRuns == 2
\* startAnalysis is invoked at most this many times in a behaviour of SpecBatch.
MaxBatches == 1
\* FileReader loads pending at the same time.
MaxPendingReads == 1
\* Largest batch size drawn in SpecProgress.
MaxTotal == 201
\* Longest result list drawn in SpecFilter.
MaxRecords == 2
\* Longest result list drawn in SpecTopics.
MaxClassified == 2
\* Largest number of entries asked of getCounts.
MaxTopN == 3
\* Longest result list drawn in SpecTrend.
MaxDated == 2
\* Longest result list drawn in SpecExport.
MaxExported == 2
\* FileReader loads pending at the same time in SpecUpload.
MaxLoads == 2

\* ------------------------------------------------------------ JS objects
\* The value of a key the object does not hold, and of a cell past the end of
\* a row.  No field parsed from a text over Chars equals it.
Undefined == "<undefined>"

\* obj[key] = value
Put(obj, key, value) ==
  [k \in (DOMAIN obj) \cup {key} |-> IF k = key THEN value ELSE obj[k]]

\* obj[key]
Get(obj, key) == IF key \in DOMAIN obj THEN obj[key] ELSE Undefined

\* A value the code's truthiness tests ("if (x)", "!x", "a && b") accept.
Truthy(v) == v # Undefined /\ v # ""

\* array.indexOf(x): 0-based, -1 when absent
IndexOf(array, x) ==
  IF \E i \in 1..Len(array) : array[i] = x
  THEN (CHOOSE i \in 1..Len(array) :
          array[i] = x /\ \A j \in 1..(i - 1) : array[j] # x) - 1
  ELSE -1

\* array[i], i 0-based
At(array, i) == IF i >= 0 /\ i < Len(array) THEN array[i + 1] ELSE Undefined

\* ------------------------------------------------------------------- text
Chars == {"a", ",", "\"", " ", "\n", "\r"}

Whitespace == {" ", "\n", "\r"}

RECURSIVE Join(_)
\* The string of a sequence of characters.
Join(cs) == IF cs = <<>> THEN "" ELSE Head(cs) \o Join(Tail(cs))

RECURSIVE TrimStart(_)
TrimStart(cs) ==
  IF cs # <<>> /\ Head(cs) \in Whitespace THEN TrimStart(Tail(cs)) ELSE cs

RECURSIVE TrimEnd(_)
TrimEnd(cs) ==
  IF cs # <<>> /\ cs[Len(cs)] \in Whitespace
  THEN TrimEnd(SubSeq(cs, 1, Len(cs) - 1))
  ELSE cs

\* String.prototype.trim
Trim(cs) == TrimEnd(TrimStart(cs))

RECURSIVE SplitFrom(_, _, _)
SplitFrom(text, i, line) ==
  IF i > Len(text) THEN <<line>>
  ELSE IF text[i] = "\r" /\ i + 1 <= Len(text) /\ text[i + 1] = "\n"
    THEN <<line>> \o SplitFrom(text, i + 2, <<>>)
  ELSE IF text[i] = "\n"
    THEN <<line>> \o SplitFrom(text, i + 1, <<>>)
  ELSE SplitFrom(text, i + 1, Append(line, text[i]))

\* text.split(/\r\n|\n/)
SplitLines(text) == SplitFrom(text, 1, <<>>)

\* .filter(line => line.trim() !== '')
NonBlank(line) == Trim(line) # <<>>

RECURSIVE ParseLineSplitsEveryComma(_, _, _, _, _)
\* A variant that ends the field at a comma in quoted mode too.
ParseLineSplitsEveryComma(line, i, fields, currentField, inQuotes) ==
  IF i > Len(line) THEN Append(fields, Join(Trim(currentField)))
  ELSE IF line[i] = "\""
    THEN IF inQuotes /\ i + 1 <= Len(line) /\ line[i + 1] = "\""
         THEN ParseLineSplitsEveryComma(line, i + 2, fields,
                                        Append(currentField, "\""), inQuotes)
         ELSE ParseLineSplitsEveryComma(line, i + 1, fields, currentField, ~inQuotes)
  ELSE IF line[i] = ","
    THEN ParseLineSplitsEveryComma(line, i + 1,
                                   Append(fields, Join(Trim(currentField))), <<>>, inQuotes)
  ELSE ParseLineSplitsEveryComma(line, i + 1, fields,
                                 Append(currentField, line[i]), inQuotes)

RECURSIVE ParseLineFrom(_, _, _, _, _)
\* The character loop of parseCsv over one line.
ParseLineFrom(line, i, fields, currentField, inQuotes) ==
  IF i > Len(line) THEN Append(fields, Join(Trim(currentField)))
  ELSE IF line[i] = "\""
    THEN IF inQuotes /\ i + 1 <= Len(line) /\ line[i + 1] = "\""
         THEN ParseLineFrom(line, i + 2, fields, Append(currentField, "\""), inQuotes)
         ELSE ParseLineFrom(line, i + 1, fields, currentField, ~inQuotes)
  ELSE IF line[i] = "," /\ ~inQuotes
    THEN ParseLineFrom(line, i + 1, Append(fields, Join(Trim(currentField))), <<>>, inQuotes)
  ELSE ParseLineFrom(line, i + 1, fields, Append(currentField, line[i]), inQuotes)

ParseLine(line) == ParseLineFrom(line, 1, <<>>, <<>>, FALSE)

\* parseCsv(text): the rows of the non-blank lines, [] when there is none.
ParseCsv(text) ==
  LET lines == SelectSeq(SplitLines(text), NonBlank)
  IN  [i \in 1..Len(lines) |-> ParseLine(lines[i])]

\* headers = computed(() => rawCsvData()[0] || [])
Headers(raw) == IF Len(raw) > 0 THEN raw[1] ELSE <<>>

\* rows = computed(() => rawCsvData().slice(1))
Rows(raw) == IF Len(raw) > 0 THEN Tail(raw) ELSE <<>>

RECURSIVE AssignFieldsSkipsMissing(_, _, _, _)
\* A variant that leaves out the key of a cell the row does not have.
AssignFieldsSkipsMissing(response, headers, row, i) ==
  IF i >= Len(headers) THEN response
  ELSE IF i >= Len(row)
    THEN AssignFieldsSkipsMissing(response, headers, row, i + 1)
  ELSE AssignFieldsSkipsMissing(Put(response, At(headers, i), At(row, i)),
                                headers, row, i + 1)

RECURSIVE AssignFields(_, _, _, _)
\* headers().forEach((header, i) => { response[header] = row[i]; })
AssignFields(response, headers, row, i) ==
  IF i >= Len(headers) THEN response
  ELSE AssignFields(Put(response, At(headers, i), At(row, i)), headers, row, i + 1)

\* The SurveyResponse of rows()[index], index 0-based.
ToSurveyResponse(headers, row, index) ==
  AssignFields([rowId |-> index + 2], headers, row, 0)

\* dataToAnalyze of startAnalysis
DataToAnalyze(raw) ==
  [n \in 1..Len(Rows(raw)) |-> ToSurveyResponse(Headers(raw), Rows(raw)[n], n - 1)]


\* --------------------------------------------------------------- Analyzer
FailedMessage == "Failed to analyze response."

\* A Classification as the Analyzer returns it (JSON.parse(response.text)).
Classification(sentiment, intent, topics) ==
  [sentiment |-> sentiment, intent |-> intent, topics |-> topics]

\* What analyzeSurveyResponse resolves to when the client exists: the parsed
\* classification, or { error: message } from its catch block.
AnalyzerValues ==
  { Classification("positive", "praise", <<"A", "X">>),
    [error |-> FailedMessage] }

\* if (analysis.error)
HasError(analysis) == "error" \in DOMAIN analysis /\ Truthy(analysis.error)

\* processItem: const result = { ...item }, then error or analysis.
MakeResult(item, analysis) ==
  IF HasError(analysis)
  THEN Put(item, "error", analysis.error)
  ELSE Put(item, "analysis", analysis)

\* Pairs <<processed, total>>, total < 240, whose quotient times 100 is a tie
\* (x.5) in exact arithmetic and falls just below it in IEEE-754 doubles, so
\* that Math.round goes down.
RoundsDown ==
  { <<23, 40>>, <<46, 80>>, <<69, 120>>, <<92, 160>>,
    <<29, 200>>, <<57, 200>>, <<113, 200>>, <<115, 200>> }

\* Math.round((processedCount / totalToProcess) * 100)
Progress(processedCount, totalToProcess) ==
  LET exact == (200 * processedCount + totalToProcess) \div (2 * totalToProcess)
  IN  IF <<processedCount, totalToProcess>> \in RoundsDown THEN exact - 1 ELSE exact

\* A variant that puts the new record first.
PrependResult(current, result) == <<result>> \o current

\* analysisResults.update(current => [...current, result])
AppendResult(current, result) == Append(current, result)

\* ------------------------------------------------------------------ state
VARIABLES
  ai,                \* GeminiService.ai is set (an API key was configured)
  appState, error,
  rawCsvData, mappedTextColumn, mappedDateColumn,
  analysisResults, analysisProgress, isAnalyzing,
  filters, dateFilterStart, dateFilterEnd,
  reads,             \* texts of the FileReader loads not yet delivered
  fileText,          \* the text the last reader.onload received
  runs               \* the invocations of processAnalysisQueue, in start order

vars ==
  << ai, appState, error, rawCsvData, mappedTextColumn,
     mappedDateColumn, analysisResults, analysisProgress, isAnalyzing,
     filters, dateFilterStart, dateFilterEnd, reads, fileText, runs >>

\* A date filter that is not set (null), and a record's date that is undefined.
NoDate == 0

EmptyObject == [k \in {} |-> Undefined]

EmptyFileMessage ==
  "The CSV file is empty or could not be parsed. Please check the file content."

NotCsvMessage == "Please upload a valid .csv file."

NoTextColumnMessage == "Please select the column for response text."

\* The signals' initial values and no batch started; `pending` are the loads
\* under way.
Constructed(client, pending) ==
  /\ ai = client
  /\ appState = "upload"
  /\ error = ""
  /\ rawCsvData = <<>>
  /\ mappedTextColumn = ""
  /\ mappedDateColumn = ""
  /\ analysisResults = <<>>
  /\ analysisProgress = 0
  /\ isAnalyzing = FALSE
  /\ filters = EmptyObject
  /\ dateFilterStart = NoDate
  /\ dateFilterEnd = NoDate
  /\ reads = pending
  /\ fileText = <<>>
  /\ runs = <<>>

\* The constructor of GeminiService sets ai iff process.env.API_KEY is set.
Init == \E client \in BOOLEAN : Constructed(client, <<>>)

\* ---------------------------------------------------------------- upload
\* handleFileUpload up to reader.readAsText(file).
HandleFileUpload(isCsv, text) ==
  /\ IF isCsv
     THEN /\ error' = ""
          /\ reads' = Append(reads, text)
     ELSE /\ error' = NotCsvMessage
          /\ UNCHANGED reads
  /\ UNCHANGED << ai, appState, rawCsvData, mappedTextColumn, mappedDateColumn,
                  analysisResults, analysisProgress, isAnalyzing, filters,
                  dateFilterStart, dateFilterEnd, fileText, runs >>

\* A variant that stores what parseCsv returned before it looks at it.
ReaderOnloadStoresFirst(n) ==
  /\ n \in 1..Len(reads)
  /\ LET text == reads[n]
         data == ParseCsv(text)
     IN  /\ fileText' = text
         /\ rawCsvData' = data
         /\ IF Len(data) = 0 \/ Len(data[1]) = 0
            THEN /\ error' = EmptyFileMessage
                 /\ appState' = "upload"
            ELSE /\ appState' = "mapping"
                 /\ UNCHANGED error
  /\ reads' = SubSeq(reads, 1, n - 1) \o SubSeq(reads, n + 1, Len(reads))
  /\ UNCHANGED << ai, mappedTextColumn, mappedDateColumn, analysisResults,
                  analysisProgress, isAnalyzing, filters, dateFilterStart,
                  dateFilterEnd, runs >>

\* reader.onload of the n-th pending load.
ReaderOnload(n) ==
  /\ n \in 1..Len(reads)
  /\ LET text == reads[n]
         data == ParseCsv(text)
     IN  /\ fileText' = text
         /\ IF Len(data) = 0 \/ Len(data[1]) = 0
            THEN /\ error' = EmptyFileMessage
                 /\ appState' = "upload"
                 /\ UNCHANGED rawCsvData
            ELSE /\ rawCsvData' = data
                 /\ appState' = "mapping"
                 /\ UNCHANGED error
  /\ reads' = SubSeq(reads, 1, n - 1) \o SubSeq(reads, n + 1, Len(reads))
  /\ UNCHANGED << ai, mappedTextColumn, mappedDateColumn, analysisResults,
                  analysisProgress, isAnalyzing, filters, dateFilterStart,
                  dateFilterEnd, runs >>

\* The mapping view writes the chosen header to mappedTextColumn.
SetTextColumn(header) ==
  /\ \E i \in 1..Len(Headers(rawCsvData)) : Headers(rawCsvData)[i] = header
  /\ mappedTextColumn' = header
  /\ UNCHANGED << ai, appState, error, rawCsvData, mappedDateColumn,
                  analysisResults, analysisProgress, isAnalyzing, filters,
                  dateFilterStart, dateFilterEnd, reads, fileText, runs >>

\* ------------------------------------------------------------------ dates
\* Instants: a day has two of them, its first (T00:00:00) and its last
\* (T23:59:59) second.
StartOfDay(day) == 2 * day

EndOfDay(day) == 2 * day + 1

\* The time value NaN of an Invalid Date.
InvalidDate == -1

Digit == {"0", "1", "2", "3", "4", "5", "6", "7", "8", "9"}

DigitValue(c) ==
  CASE c = "0" -> 0 [] c = "1" -> 1 [] c = "2" -> 2 [] c = "3" -> 3
    [] c = "4" -> 4 [] c = "5" -> 5 [] c = "6" -> 6 [] c = "7" -> 7
    [] c = "8" -> 8 [] c = "9" -> 9

RECURSIVE ParseInt(_)
\* parseInt of a string of digits
ParseInt(cs) ==
  IF cs = <<>> THEN 0
  ELSE 10 * ParseInt(SubSeq(cs, 1, Len(cs) - 1)) + DigitValue(cs[Len(cs)])

\* (\d{a})[/-](\d{b})[/-](\d{4}) at position i
PatternAt(cs, i, a, b) ==
  LET DigitsAt(from, n) ==
        from + n - 1 <= Len(cs) /\ \A k \in from..(from + n - 1) : cs[k] \in Digit
      SeparatorAt(at) == at <= Len(cs) /\ cs[at] \in {"/", "-"}
  IN  /\ DigitsAt(i, a)
      /\ SeparatorAt(i + a)
      /\ DigitsAt(i + a + 1, b)
      /\ SeparatorAt(i + a + 1 + b)
      /\ DigitsAt(i + a + b + 2, 4)

\* dateStr.match(/(\d{1,2})[/-](\d{1,2})[/-](\d{4})/): the three groups of the
\* leftmost match, each \d{1,2} taking two digits when it can; <<>> for null.
Match(cs) ==
  LET starts == { i \in 1..Len(cs) : \E a \in {1, 2}, b \in {1, 2} : PatternAt(cs, i, a, b) }
  IN  IF starts = {} THEN <<>>
      ELSE LET i == CHOOSE first \in starts : \A other \in starts : first <= other
               a == IF \E b \in {1, 2} : PatternAt(cs, i, 2, b) THEN 2 ELSE 1
               b == IF PatternAt(cs, i, a, 2) THEN 2 ELSE 1
           IN  << SubSeq(cs, i, i + a - 1),
                  SubSeq(cs, i + a + 1, i + a + b),
                  SubSeq(cs, i + a + b + 2, i + a + b + 5) >>

IsLeap(year) == (year % 4 = 0 /\ year % 100 # 0) \/ year % 400 = 0

\* The days of month 1..12 of a year.
DaysInMonth(year, month) ==
  IF month = 2 THEN (IF IsLeap(year) THEN 29 ELSE 28)
  ELSE IF month \in {4, 6, 9, 11} THEN 30
  ELSE 31

\* The days from 1 January 2023, day 0, to 1 January of a year.
DaysBeforeYear(year) ==
  LET LeapsBefore(y) == ((y - 1) \div 4) - ((y - 1) \div 100) + ((y - 1) \div 400)
  IN  365 * (year - 2023) + LeapsBefore(year) - LeapsBefore(2023)

RECURSIVE DaysBeforeMonth(_, _)
DaysBeforeMonth(year, month) ==
  IF month = 1 THEN 0
  ELSE DaysBeforeMonth(year, month - 1) + DaysInMonth(year, month - 1)

\* new Date(year, monthIndex, day): local midnight of the day, a month index
\* outside 0..11 and a day outside the month carrying over into the
\* neighbouring months and years; a year 0..99 is 1900 + year; the time value
\* is NaN only beyond 100,000,000 days from 1 January 1970.
DateOf(year, monthIndex, day) ==
  LET full == IF year \in 0..99 THEN 1900 + year ELSE year
      y == full + (monthIndex \div 12)
      m == (monthIndex % 12) + 1
      dayNumber == DaysBeforeYear(y) + DaysBeforeMonth(y, m) + (day - 1)
  IN  IF dayNumber + 19358 > 100000000 \/ dayNumber + 19358 < -100000000
      THEN InvalidDate
      ELSE StartOfDay(dayNumber)

\* The text of two groups and a year around a separator, as "13/1/2024".
DateText(first, separator, second, year) ==
  LET DigitOf(n) == CHOOSE c \in Digit : DigitValue(c) = n
      RECURSIVE Numeral(_)
      Numeral(n) ==
        IF n < 10 THEN <<DigitOf(n)>>
        ELSE Append(Numeral(n \div 10), DigitOf(n % 10))
  IN  Numeral(first) \o <<separator>> \o Numeral(second) \o <<separator>>
        \o Numeral(year)

\* The date cells of the specifications: numeric dates, one of them inside
\* other text, and texts the pattern does not match.
DateTexts ==
  { DateText(first, separator, second, year) :
      first \in {1, 2, 12, 13, 30, 31, 32}, separator \in {"/", "-"},
      second \in {1, 2, 12, 13, 30, 31, 32}, year \in {2024, 2025} }
  \cup { <<"a">> \o DateText(13, "/", 1, 2024), <<"1", "/", "2">>, <<"a">> }

\* The characters of a cell: a string is atomic here, so they are looked up
\* among the date cells; a cell that is none of them has no digit.
Characters(str) ==
  IF \E cs \in DateTexts : Join(cs) = str
  THEN CHOOSE cs \in DateTexts : Join(cs) = str
  ELSE <<>>

\* The time value of new Date(dateStr).  For a string that is not in the ISO
\* format the result is implementation-defined: an engine rejects it, or, for
\* a string that is all a numeric date whose first group is a month and whose
\* second is a day of a month, may read it month first.
GeneralOutcomes(dateStr) ==
  LET cs == Characters(dateStr)
      parts == Match(cs)
  IN  {InvalidDate} \cup
      ( IF /\ parts # <<>>
           /\ Len(cs) = Len(parts[1]) + Len(parts[2]) + 6
           /\ ParseInt(parts[1]) \in 1..12
           /\ ParseInt(parts[2]) \in 1..31
        THEN { DateOf(ParseInt(parts[3]), ParseInt(parts[1]) - 1, ParseInt(parts[2])) }
        ELSE {} )

\* parseDate(dateStr), d being the time value of new Date(dateStr).
ParseDate(dateStr, d) ==
  IF ~Truthy(dateStr) THEN NoDate
  ELSE IF d # InvalidDate THEN d
  ELSE LET parts == Match(Characters(dateStr))
       IN  IF parts # <<>>
           THEN LET d2 == DateOf(ParseInt(parts[3]), ParseInt(parts[1]) - 1,
                                 ParseInt(parts[2]))
                    d3 == DateOf(ParseInt(parts[3]), ParseInt(parts[2]) - 1,
                                 ParseInt(parts[1]))
                IN  IF d2 # InvalidDate THEN d2
                    ELSE IF d3 # InvalidDate THEN d3
                    ELSE NoDate
           ELSE NoDate

\* ------------------------------------------------------------------ queue
\* processAnalysisQueue(queue, textIndex, dateIndex) up to its first
\* suspension.  An empty queue runs to the end at once.  Without a client
\* analyzeSurveyResponse throws: the promise of processAnalysisQueue is
\* rejected, nobody handles it, and the rest of the function never runs.
StartRun(queue, textIndex, dateIndex, client) ==
  [ queue |-> queue, textIndex |-> textIndex, dateIndex |-> dateIndex,
    totalToProcess |-> Len(queue), processedCount |-> 0,
    item |-> IF Len(queue) = 0 THEN 0 ELSE 1,
    calls |-> [n \in 1..Len(queue) |-> IF n = 1 THEN 1 ELSE 0],
    analysis |-> EmptyObject, d |-> InvalidDate,
    pc |-> IF Len(queue) = 0 THEN "done"
           ELSE IF client THEN "analyzer" ELSE "rejected" ]

\* An invocation that has returned ("done") or thrown ("rejected") holds
\* nothing any more: its locals are dropped.
Ended(run) == run.pc \in {"done", "rejected"}

Settle(run) ==
  IF Ended(run)
  THEN [ queue |-> <<>>, textIndex |-> -1, dateIndex |-> -1,
         totalToProcess |-> 0, processedCount |-> 0, item |-> 0,
         calls |-> <<>>, analysis |-> EmptyObject, d |-> InvalidDate,
         pc |-> run.pc ]
  ELSE run

\* startAnalysis, with the synchronous part of processAnalysisQueue.
StartAnalysis ==
  IF ~Truthy(mappedTextColumn)
  THEN /\ error' = NoTextColumnMessage
       /\ UNCHANGED << ai, appState, rawCsvData, mappedTextColumn,
                       mappedDateColumn, analysisResults, analysisProgress,
                       isAnalyzing, filters, dateFilterStart, dateFilterEnd,
                       reads, fileText, runs >>
  ELSE /\ error' = ""
       /\ analysisProgress' = 0
       /\ LET textColumnIndex == IndexOf(Headers(rawCsvData), mappedTextColumn)
              dateColumnIndex ==
                IF Truthy(mappedDateColumn)
                THEN IndexOf(Headers(rawCsvData), mappedDateColumn)
                ELSE -1
              run == StartRun(DataToAnalyze(rawCsvData), textColumnIndex,
                              dateColumnIndex, ai)
          IN  /\ runs' = Append(runs, Settle(run))
              /\ isAnalyzing' = (run.pc # "done")
              /\ appState' = IF run.pc = "done" THEN "results" ELSE "analyzing"
       /\ UNCHANGED << ai, rawCsvData, mappedTextColumn,
                       mappedDateColumn, analysisResults, filters,
                       dateFilterStart, dateFilterEnd, reads, fileText >>

\* A variant that issues the next record's call as soon as the record is
\* appended, with no delay in between.
ProcessItemSkipsDelay(r, analysis) ==
  LET run == runs[r]
      result == MakeResult(run.queue[run.item], analysis)
      processedCount == run.processedCount + 1
  IN  /\ analysisProgress' = Progress(processedCount, run.totalToProcess)
      /\ analysisResults' = AppendResult(analysisResults, result)
      /\ runs' = [runs EXCEPT ![r] =
                    IF run.item < Len(run.queue)
                    THEN [run EXCEPT !.processedCount = processedCount,
                                     !.item = run.item + 1,
                                     !.calls[run.item + 1] = run.calls[run.item + 1] + 1,
                                     !.pc = "analyzer"]
                    ELSE [run EXCEPT !.processedCount = processedCount,
                                     !.analysis = analysis,
                                     !.pc = "delay"]]

\* processItem after the Analyzer call of run r resolved to `analysis`, up to
\* the delay that follows it.  With a date column the record gets the date
\* parseDate makes of its cell, d being what new Date(dateStr) gave there.
ProcessItem(r, analysis) ==
  LET run == runs[r]
      item == run.queue[run.item]
      result == MakeResult(item, analysis)
      dateStr == Get(item, At(Headers(rawCsvData), run.dateIndex))
      processedCount == run.processedCount + 1
  IN  /\ analysisProgress' = Progress(processedCount, run.totalToProcess)
      /\ \E d \in IF run.dateIndex > -1 THEN GeneralOutcomes(dateStr) ELSE {run.d} :
           /\ analysisResults' =
                AppendResult(analysisResults,
                             IF run.dateIndex > -1
                             THEN Put(result, "date", ParseDate(dateStr, d))
                             ELSE result)
           /\ runs' = [runs EXCEPT ![r] =
                         [run EXCEPT !.processedCount = processedCount,
                                     !.analysis = analysis,
                                     !.d = d,
                                     !.pc = "delay"]]

\* The Analyzer call of run r resolves.
AnalyzerReturns(r, analysis) ==
  /\ r \in 1..Len(runs)
  /\ runs[r].pc = "analyzer"
  /\ ProcessItem(r, analysis)
  /\ UNCHANGED << ai, appState, error, rawCsvData, mappedTextColumn,
                  mappedDateColumn, isAnalyzing, filters, dateFilterStart,
                  dateFilterEnd, reads, fileText >>

\* A variant that gives the batch up after a record that failed.
AfterDelayStopsOnError(run, client) ==
  IF run.item < Len(run.queue) /\ ~HasError(run.analysis)
  THEN [run EXCEPT !.item = run.item + 1,
                   !.calls[run.item + 1] = run.calls[run.item + 1] + 1,
                   !.analysis = EmptyObject,
                   !.pc = IF client THEN "analyzer" ELSE "rejected"]
  ELSE [run EXCEPT !.pc = "done"]

\* The loop of processAnalysisQueue after a delay: the next item's call, or
\* the end of the batch.
AfterDelay(run, client) ==
  IF run.item < Len(run.queue)
  THEN [run EXCEPT !.item = run.item + 1,
                   !.calls[run.item + 1] = run.calls[run.item + 1] + 1,
                   !.analysis = EmptyObject,
                   !.pc = IF client THEN "analyzer" ELSE "rejected"]
  ELSE [run EXCEPT !.pc = "done"]

\* The delay of run r elapses.
DelayElapses(r) ==
  /\ r \in 1..Len(runs)
  /\ runs[r].pc = "delay"
  /\ LET run == AfterDelay(runs[r], ai)
     IN  /\ runs' = [runs EXCEPT ![r] = Settle(run)]
         /\ IF run.pc = "done"
            THEN /\ isAnalyzing' = FALSE
                 /\ appState' = "results"
            ELSE UNCHANGED <<isAnalyzing, appState>>
  /\ UNCHANGED << ai, error, rawCsvData, mappedTextColumn,
                  mappedDateColumn, analysisResults, analysisProgress, filters,
                  dateFilterStart, dateFilterEnd, reads, fileText >>

\* resetApp: every signal back to its initial value.  The pending loads and
\* the running batches are not touched.
ResetApp ==
  /\ appState' = "upload"
  /\ error' = ""
  /\ rawCsvData' = <<>>
  /\ mappedTextColumn' = ""
  /\ mappedDateColumn' = ""
  /\ analysisResults' = <<>>
  /\ analysisProgress' = 0
  /\ isAnalyzing' = FALSE
  /\ filters' = EmptyObject
  /\ dateFilterStart' = NoDate
  /\ dateFilterEnd' = NoDate
  /\ UNCHANGED <<ai, reads, fileText, runs>>

\* ----------------------------------------------------------------- filter
\* updateFilter(dimension, event)
UpdateFilter(dimension, value) ==
  /\ filters' = Put(filters, dimension, value)
  /\ UNCHANGED << ai, appState, error, rawCsvData, mappedTextColumn,
                  mappedDateColumn, analysisResults, analysisProgress,
                  isAnalyzing, dateFilterStart, dateFilterEnd, reads, fileText,
                  runs >>

\* updateDateFilterStart(event): the day picked, 0 when the input is cleared
UpdateDateFilterStart(day) ==
  /\ dateFilterStart' = IF day = 0 THEN NoDate ELSE StartOfDay(day)
  /\ UNCHANGED << ai, appState, error, rawCsvData, mappedTextColumn,
                  mappedDateColumn, analysisResults, analysisProgress,
                  isAnalyzing, filters, dateFilterEnd, reads, fileText, runs >>

\* updateDateFilterEnd(event)
UpdateDateFilterEnd(day) ==
  /\ dateFilterEnd' = IF day = 0 THEN NoDate ELSE EndOfDay(day)
  /\ UNCHANGED << ai, appState, error, rawCsvData, mappedTextColumn,
                  mappedDateColumn, analysisResults, analysisProgress,
                  isAnalyzing, filters, dateFilterStart, reads, fileText, runs >>

\* resetDateFilter
ResetDateFilter ==
  /\ dateFilterStart' = NoDate
  /\ dateFilterEnd' = NoDate
  /\ UNCHANGED << ai, appState, error, rawCsvData, mappedTextColumn,
                  mappedDateColumn, analysisResults, analysisProgress,
                  isAnalyzing, filters, reads, fileText, runs >>

\* A variant that takes 'all' for a value to match.
FilterKeysWithoutSentinel(activeFilters) ==
  { key \in DOMAIN activeFilters : Truthy(activeFilters[key]) }

\* Object.keys(activeFilters).filter(key => activeFilters[key] &&
\*                                          activeFilters[key] !== 'all')
FilterKeys(activeFilters) ==
  { key \in DOMAIN activeFilters :
      Truthy(activeFilters[key]) /\ activeFilters[key] # "all" }

\* !!r.date
HasDate(r) == "date" \in DOMAIN r /\ r.date # NoDate

\* A variant whose date bounds are exclusive.
KeepExclusive(r, activeFilters, filterKeys, startDate, endDate) ==
  IF ~(\A key \in filterKeys : Get(r, key) = activeFilters[key]) THEN FALSE
  ELSE IF startDate # NoDate /\ (~HasDate(r) \/ r.date <= startDate) THEN FALSE
  ELSE IF endDate # NoDate /\ (~HasDate(r) \/ r.date >= endDate) THEN FALSE
  ELSE TRUE

\* The callback of results.filter in filteredAnalysisResults.
Keep(r, activeFilters, filterKeys, startDate, endDate) ==
  IF ~(\A key \in filterKeys : Get(r, key) = activeFilters[key]) THEN FALSE
  ELSE IF startDate # NoDate /\ (~HasDate(r) \/ r.date < startDate) THEN FALSE
  ELSE IF endDate # NoDate /\ (~HasDate(r) \/ r.date > endDate) THEN FALSE
  ELSE TRUE

\* A variant that loses the first record it keeps.
FilterResultsLosesFirst(results, activeFilters, filterKeys, startDate, endDate) ==
  LET kept == SelectSeq(results,
                        LAMBDA r : Keep(r, activeFilters, filterKeys,
                                        startDate, endDate))
  IN  IF kept = <<>> THEN <<>> ELSE Tail(kept)

RECURSIVE FilterResults(_, _, _, _, _)
\* results.filter(r => ...)
FilterResults(results, activeFilters, filterKeys, startDate, endDate) ==
  IF results = <<>> THEN <<>>
  ELSE LET rest == FilterResults(Tail(results), activeFilters, filterKeys,
                                 startDate, endDate)
       IN  IF Keep(Head(results), activeFilters, filterKeys, startDate, endDate)
           THEN <<Head(results)>> \o rest
           ELSE rest

\* filteredAnalysisResults as a function of the signals it reads.  same says
\* that the array returned is the array of analysisResults itself (the early
\* return) and not the new array that Array.prototype.filter builds.
Filtered(results, activeFilters, startDate, endDate) ==
  LET filterKeys == FilterKeys(activeFilters)
  IN  IF filterKeys = {} /\ startDate = NoDate /\ endDate = NoDate
      THEN [same |-> TRUE, items |-> results]
      ELSE [same |-> FALSE,
            items |-> FilterResults(results, activeFilters, filterKeys,
                                    startDate, endDate)]

filteredAnalysisResults ==
  Filtered(analysisResults, filters, dateFilterStart, dateFilterEnd)

\* -------------------------------------------------------------- topic tree
\* { name: topicName, count: 0, responses: [], subTopics: [], expanded: false }
\* A node is an object the map `root` and the subTopics arrays refer to; the
\* model keeps the objects in the map and the references as their keys.
NewTopicNode(topicName) ==
  [name |-> topicName, count |-> 0, responses |-> <<>>, subTopics |-> <<>>]

\* The callback of r.analysis.topics.forEach in topicTree.  currentLevel is
\* the map `root` at every depth: the code never assigns it again.
VisitTopic(walk, r, topicName) ==
  LET currentLevel == walk.root
      created ==
        IF topicName \in DOMAIN currentLevel THEN currentLevel
        ELSE Put(currentLevel, topicName, NewTopicNode(topicName))
      linked ==
        IF /\ topicName \notin DOMAIN currentLevel
           /\ walk.parentNode # Undefined
           /\ ~\E i \in 1..Len(created[walk.parentNode].subTopics) :
                 created[walk.parentNode].subTopics[i] = topicName
        THEN [created EXCEPT ![walk.parentNode].subTopics = Append(@, topicName)]
        ELSE created
  IN  [root |-> [linked EXCEPT ![topicName].count = @ + 1,
                               ![topicName].responses = Append(@, r)],
       parentNode |-> topicName]

RECURSIVE VisitTopics(_, _, _)
\* r.analysis.topics.forEach(...) from the index-th topic on
VisitTopics(walk, r, index) ==
  IF index > Len(r.analysis.topics) THEN walk
  ELSE VisitTopics(VisitTopic(walk, r, r.analysis.topics[index]), r, index + 1)

\* if (!r.analysis || !r.analysis.topics || r.analysis.topics.length === 0)
HasTopics(r) ==
  /\ "analysis" \in DOMAIN r
  /\ "topics" \in DOMAIN r.analysis
  /\ Len(r.analysis.topics) > 0

RECURSIVE TopicRoot(_, _)
\* The map `root` after results.forEach in topicTree has visited the records
\* from the index-th on.
TopicRoot(root, results) ==
  IF results = <<>> THEN root
  ELSE TopicRoot(
         IF HasTopics(Head(results))
         THEN VisitTopics([root |-> root, parentNode |-> Undefined],
                          Head(results), 1).root
         ELSE root,
         Tail(results))

RECURSIVE Distinct(_, _)
\* Array.from(new Set(names)): the first occurrence of each name, in order.
Distinct(names, seen) ==
  IF names = <<>> THEN <<>>
  ELSE IF Head(names) \in seen THEN Distinct(Tail(names), seen)
       ELSE <<Head(names)>> \o Distinct(Tail(names), seen \cup {Head(names)})

\* results.map(r => r.analysis?.topics[0]).filter(Boolean)
FirstTopics(results) ==
  LET firsts == [i \in 1..Len(results) |->
                   IF HasTopics(results[i]) THEN results[i].analysis.topics[1]
                   ELSE Undefined]
  IN  SelectSeq(firsts, Truthy)

RECURSIVE InsertByCount(_, _)
\* The place a stable sort by (a, b) => b.count - a.count gives a node that
\* follows the sorted nodes in the input.
InsertByCount(sorted, node) ==
  IF sorted = <<>> THEN <<node>>
  ELSE IF Head(sorted).count >= node.count
       THEN <<Head(sorted)>> \o InsertByCount(Tail(sorted), node)
       ELSE <<node>> \o sorted

RECURSIVE SortByCount(_)
\* nodes.sort((a, b) => b.count - a.count)
SortByCount(nodes) ==
  IF nodes = <<>> THEN <<>>
  ELSE InsertByCount(SortByCount(SubSeq(nodes, 1, Len(nodes) - 1)),
                     nodes[Len(nodes)])

RECURSIVE TopicTreeAt(_, _)
\* The node a reference leads to, its subTopics followed in turn.
TopicTreeAt(root, topicName) ==
  [name |-> root[topicName].name,
   count |-> root[topicName].count,
   responses |-> root[topicName].responses,
   subTopics |-> [i \in 1..Len(root[topicName].subTopics) |->
                    TopicTreeAt(root, root[topicName].subTopics[i])]]

\* topicTree as a function of the filtered results.
TopicTreeOf(results) ==
  LET root == TopicRoot(EmptyObject, results)
      topLevelTopics == Distinct(FirstTopics(results), {})
      nodes == [i \in 1..Len(topLevelTopics) |-> TopicTreeAt(root, topLevelTopics[i])]
  IN  SortByCount(nodes)

topicTree == TopicTreeOf(filteredAnalysisResults.items)

\* ------------------------------------------------------------------ counts
\* The object `counts` of getCounts is the sequence of its entries, in the
\* order Object.entries lists them: the order in which the keys were added.
\* counts[key] = (counts[key] || 0) + 1
CountInto(counts, key) ==
  IF \E i \in 1..Len(counts) : counts[i][1] = key
  THEN [i \in 1..Len(counts) |->
          IF counts[i][1] = key THEN <<key, counts[i][2] + 1>> ELSE counts[i]]
  ELSE Append(counts, <<key, 1>>)

RECURSIVE CountTopics(_, _, _)
\* r.analysis.topics?.forEach(topic => ...) from the index-th topic on
CountTopics(counts, topics, index) ==
  IF index > Len(topics) THEN counts
  ELSE CountTopics(CountInto(counts, topics[index]), topics, index + 1)

\* The callback of results.forEach in getCounts.
CountRecord(counts, r, field) ==
  IF "analysis" \notin DOMAIN r THEN counts
  ELSE IF field = "topics"
       THEN IF "topics" \in DOMAIN r.analysis
            THEN CountTopics(counts, r.analysis.topics, 1)
            ELSE counts
       ELSE IF Truthy(Get(r.analysis, field))
            THEN CountInto(counts, r.analysis[field])
            ELSE counts

RECURSIVE CountAll(_, _, _)
\* results.forEach(...)
CountAll(counts, results, field) ==
  IF results = <<>> THEN counts
  ELSE CountAll(CountRecord(counts, Head(results), field), Tail(results), field)

RECURSIVE InsertEntry(_, _)
\* The place a stable sort by (a, b) => b[1] - a[1] gives an entry that
\* follows the sorted entries in the input.
InsertEntry(sorted, entry) ==
  IF sorted = <<>> THEN <<entry>>
  ELSE IF Head(sorted)[2] >= entry[2]
       THEN <<Head(sorted)>> \o InsertEntry(Tail(sorted), entry)
       ELSE <<entry>> \o sorted

RECURSIVE SortEntries(_)
\* Object.entries(counts).sort((a, b) => b[1] - a[1])
SortEntries(entries) ==
  IF entries = <<>> THEN <<>>
  ELSE InsertEntry(SortEntries(SubSeq(entries, 1, Len(entries) - 1)),
                   entries[Len(entries)])

\* array.reverse()
Reverse(array) == [i \in 1..Len(array) |-> array[Len(array) + 1 - i]]

\* array.slice(0, end), end >= 0
SliceTo(array, end) == SubSeq(array, 1, IF end < Len(array) THEN end ELSE Len(array))

\* The argument slice left out (undefined).
NoSlice == -1

\* A variant that leaves the entries in the order of the keys' first
\* occurrence.
GetCountsUnsorted(results, field, slice) ==
  LET sorted == CountAll(<<>>, results, field)
  IN  IF slice # NoSlice /\ slice # 0
      THEN Reverse(SliceTo(sorted, slice))
      ELSE sorted

\* getCounts(results, field, slice)
GetCounts(results, field, slice) ==
  LET sorted == SortEntries(CountAll(<<>>, results, field))
  IN  IF slice # NoSlice /\ slice # 0
      THEN Reverse(SliceTo(sorted, slice))
      ELSE sorted

\* ------------------------------------------------------------------- trend
\* trendData returns null
Null == [null |-> TRUE]

\* The day an instant lies in.
DayOf(instant) == instant \div 2

\* periodFunc.floor(date) for d3.timeDay, d3.timeWeek and d3.timeMonth.  Day 0
\* is a Sunday and the first day of a month of 31 days, as 1 January 2023 is;
\* the days of the model lie in that month and the next.
PeriodFloor(period, instant) ==
  IF period = "day" THEN StartOfDay(DayOf(instant))
  ELSE IF period = "week" THEN StartOfDay(DayOf(instant) - (DayOf(instant) % 7))
  ELSE StartOfDay(IF DayOf(instant) < 31 THEN 0 ELSE 31)

\* !!r.date && !!r.analysis
DatedAndAnalysed(r) == HasDate(r) /\ "analysis" \in DOMAIN r

\* const value = r.analysis[groupBy];
\* Array.isArray(value) ? value : [value], then .filter(Boolean)
GroupValues(r, groupBy) ==
  LET value == Get(r.analysis, groupBy)
  IN  IF groupBy = "topics" /\ value # Undefined THEN SelectSeq(value, Truthy)
      ELSE SelectSeq(<<value>>, Truthy)

\* The strings of the model, in the order Array.prototype.sort gives them
\* (by UTF-16 code unit: capitals before small letters).
KeyOrder == <<"A", "X", "date", "negative", "positive", "praise">>

\* Array.from(new Set(results.flatMap(...).filter(Boolean))), then sort()
AllKeys(results, groupBy) ==
  SelectSeq(KeyOrder,
            LAMBDA key : \E i \in 1..Len(results) :
                           \E j \in 1..Len(GroupValues(results[i], groupBy)) :
                             GroupValues(results[i], groupBy)[j] = key)

RECURSIVE TallyValues(_, _, _)
\* values.forEach(val => { if (counts.has(val)) counts.set(val, ... + 1) }),
\* and the same for a single value; counts maps every key of allKeys
TallyValues(counts, values, index) ==
  IF index > Len(values) THEN counts
  ELSE TallyValues(
         IF values[index] \in DOMAIN counts
         THEN [counts EXCEPT ![values[index]] = @ + 1]
         ELSE counts,
         values, index + 1)

RECURSIVE TallyRecords(_, _, _)
\* v.forEach(d => ...) in the reducer of d3.rollup
TallyRecords(counts, v, groupBy) ==
  IF v = <<>> THEN counts
  ELSE TallyRecords(TallyValues(counts, GroupValues(Head(v), groupBy), 1),
                    Tail(v), groupBy)

\* The reducer of d3.rollup for the records v of one bucket.
BucketCounts(v, allKeys, groupBy) ==
  TallyRecords([key \in { allKeys[i] : i \in 1..Len(allKeys) } |-> 0], v, groupBy)

RECURSIVE Ascending(_)
\* Array.from(keys).sort(d3.ascending) of a set of instants
Ascending(instants) ==
  IF instants = {} THEN <<>>
  ELSE LET least == CHOOSE t \in instants : \A u \in instants : t <= u
       IN  <<least>> \o Ascending(instants \ {least})

RECURSIVE StackedEntryKeepsDate(_, _, _, _)
\* A variant that does not overwrite a property the entry has.
StackedEntryKeepsDate(entry, counts, allKeys, index) ==
  IF index > Len(allKeys) THEN entry
  ELSE StackedEntryKeepsDate(
         IF allKeys[index] \in DOMAIN entry THEN entry
         ELSE Put(entry, allKeys[index], counts[allKeys[index]]),
         counts, allKeys, index + 1)

RECURSIVE StackedEntry(_, _, _, _)
\* counts.forEach((value, key) => { entry[key] = value; }) on entry = { date }
StackedEntry(entry, counts, allKeys, index) ==
  IF index > Len(allKeys) THEN entry
  ELSE StackedEntry(Put(entry, allKeys[index], counts[allKeys[index]]),
                    counts, allKeys, index + 1)

\* trendData as a function of the signals it reads.
TrendDataOf(dateColumn, filtered, period, groupBy) ==
  IF ~Truthy(dateColumn) THEN Null
  ELSE
    LET results == SelectSeq(filtered, DatedAndAnalysed)
    IN  IF Len(results) = 0 THEN Null
        ELSE
          LET allKeys == AllKeys(results, groupBy)
              bucketOf(r) == PeriodFloor(period, r.date)
              dataByDate(date) ==
                BucketCounts(SelectSeq(results, LAMBDA r : bucketOf(r) = date),
                             allKeys, groupBy)
              sortedDates ==
                Ascending({ bucketOf(results[i]) : i \in 1..Len(results) })
          IN  [series |->
                 [k \in 1..Len(allKeys) |->
                    [name |-> allKeys[k],
                     values |-> [i \in 1..Len(sortedDates) |->
                                   [date |-> sortedDates[i],
                                    value |-> dataByDate(sortedDates[i])[allKeys[k]]]]]],
               dates |-> sortedDates,
               keys |-> allKeys,
               stackedData |->
                 [i \in 1..Len(sortedDates) |->
                    StackedEntry([date |-> sortedDates[i]],
                                 dataByDate(sortedDates[i]), allKeys, 1)]]

\* trendData for a period and a grouping chosen in the chart's controls.
trendData(period, groupBy) ==
  TrendDataOf(mappedDateColumn, filteredAnalysisResults.items, period, groupBy)

\* ------------------------------------------------------------------ export
\* The values exportToCsv hands to escapeCsvCell, where the code tells them
\* apart: a string by its characters, a number, an array of strings, and
\* undefined.
JsString(chars) == [kind |-> "string", chars |-> chars]

JsNumber(n) == [kind |-> "number", n |-> n]

JsArray(items) == [kind |-> "array", items |-> items]

JsUndefined == [kind |-> "undefined"]

Digits == <<"0", "1", "2", "3", "4", "5", "6", "7", "8", "9">>

RECURSIVE Decimal(_)
\* String(n) for a natural number
Decimal(n) ==
  IF n < 10 THEN <<Digits[n + 1]>>
  ELSE Decimal(n \div 10) \o <<Digits[(n % 10) + 1]>>

RECURSIVE JoinWith(_, _)
\* array.join(separator) of an array of strings, as characters
JoinWith(items, separator) ==
  IF items = <<>> THEN <<>>
  ELSE IF Len(items) = 1 THEN items[1]
  ELSE items[1] \o <<separator>> \o JoinWith(Tail(items), separator)

\* A variant of String(cell) that leaves an array joined by commas.
StringOfArrayByCommas(cell) ==
  IF cell.kind = "string" THEN cell.chars
  ELSE IF cell.kind = "number" THEN Decimal(cell.n)
  ELSE JoinWith(cell.items, ",")

\* let str = String(cell); if (Array.isArray(cell)) str = cell.join('|')
StringOf(cell) ==
  IF cell.kind = "string" THEN cell.chars
  ELSE IF cell.kind = "number" THEN Decimal(cell.n)
  ELSE JoinWith(cell.items, "|")

RECURSIVE DoubleQuotes(_)
\* str.replace(/"/g, '""')
DoubleQuotes(str) ==
  IF str = <<>> THEN <<>>
  ELSE (IF Head(str) = "\"" THEN <<"\"", "\"">> ELSE <<Head(str)>>)
       \o DoubleQuotes(Tail(str))

\* str.includes(c)
Includes(str, c) == \E i \in 1..Len(str) : str[i] = c

\* escapeCsvCell(cell)
EscapeCsvCell(cell) ==
  IF cell.kind = "undefined" THEN <<>>
  ELSE LET str == StringOf(cell)
       IN  IF Includes(str, ",") \/ Includes(str, "\"") \/ Includes(str, "\n")
           THEN <<"\"">> \o DoubleQuotes(str) \o <<"\"">>
           ELSE str

\* const analysisHeaders = [...]
AnalysisHeaders ==
  <<"sentiment", "sentiment_score", "intent", "emotions", "topics",
    "explanation", "confidence", "redacted_excerpt">>

RECURSIVE JoinStrings(_, _)
\* array.join(separator) of an array of strings
JoinStrings(items, separator) ==
  IF items = <<>> THEN ""
  ELSE IF Len(items) = 1 THEN items[1]
  ELSE items[1] \o separator \o JoinStrings(Tail(items), separator)

\* res[h], res.analysis[ah]
Property(obj, key) == IF key \in DOMAIN obj THEN obj[key] ELSE JsUndefined

\* The array rowData of one record in exportToCsv.
RowData(r, allHeaders) ==
  <<r.rowId>>
  \o [i \in 1..Len(allHeaders) |-> Property(r, allHeaders[i])]
  \o [i \in 1..Len(AnalysisHeaders) |->
        IF "analysis" \in DOMAIN r THEN Property(r.analysis, AnalysisHeaders[i])
        ELSE JsString(<<>>)]

\* No file is produced.
NoDownload == [download |-> FALSE]

\* exportToCsv as a function of the filtered results and the headers: the
\* array csvRows and the text csvContent of the file that is downloaded.
ExportOf(results, allHeaders) ==
  IF Len(results) = 0 THEN NoDownload
  ELSE LET headers == <<"rowId">> \o allHeaders \o AnalysisHeaders
           csvRows ==
             <<JoinStrings(headers, ",")>>
             \o [n \in 1..Len(results) |->
                   Join(JoinWith([i \in 1..Len(RowData(results[n], allHeaders)) |->
                                    EscapeCsvCell(RowData(results[n], allHeaders)[i])],
                                 ","))]
       IN  [download |-> TRUE,
            csvRows |-> csvRows,
            csvContent |-> JoinStrings(csvRows, "\n")]

exportToCsv == ExportOf(filteredAnalysisResults.items, Headers(rawCsvData))

\* --------------------------------------------------------- specifications
\* The files of the application's behaviours: two data rows, one data row
\* under a column named error, and a header alone.
TwoRows == <<"t", "\n", "x", "\n", "y">>

ErrorColumn == <<"e", "r", "r", "o", "r", "\n", "x">>

HeaderOnly == <<"t">>

SampleTexts == {TwoRows, ErrorColumn, HeaderOnly}

Upload ==
  /\ Len(reads) < MaxPendingReads
  /\ \E text \in SampleTexts : HandleFileUpload(TRUE, text)

Onload == \E n \in 1..Len(reads) : ReaderOnload(n)

MapText == \E i \in 1..Len(Headers(rawCsvData)) : SetTextColumn(Headers(rawCsvData)[i])

Resolve ==
  \E r \in 1..Len(runs), analysis \in AnalyzerValues : AnalyzerReturns(r, analysis)

Elapse == \E r \in 1..Len(runs) : DelayElapses(r)

\* The user reaches a handler from the view that shows its control: the file
\* input in the upload view, the column choice and the start button in the
\* mapping view, the reset button in every view.  The loads, the Analyzer
\* calls and the delays complete whatever the view is.
UserUpload == appState = "upload" /\ Upload

UserMapText == appState = "mapping" /\ MapText

UserStart(limit) == appState = "mapping" /\ Len(runs) < limit /\ StartAnalysis

Next ==
  \/ UserUpload
  \/ Onload
  \/ UserMapText
  \/ UserStart(MaxRuns)
  \/ ResetApp
  \/ Resolve
  \/ Elapse

\* The application, the user starting up to MaxRuns batches.
Spec == Init /\ [][Next]_vars

NextBatch ==
  \/ UserUpload
  \/ Onload
  \/ UserMapText
  \/ UserStart(MaxBatches)
  \/ ResetApp
  \/ Resolve
  \/ Elapse

\* The application, the user starting up to MaxBatches batches.
SpecBatch == Init /\ [][NextBatch]_vars

\* ---- the CSV text: every text up to MaxTextLen is loaded, mapped, started
InitCsv ==
  \E n \in 0..MaxTextLen :
    \E text \in [1..n -> Chars] : Constructed(TRUE, <<text>>)

NextCsv ==
  \/ Onload
  \/ UserMapText
  \/ UserStart(MaxBatches)

SpecCsv == InitCsv /\ [][NextCsv]_vars

\* ---- the progress of one batch of up to MaxTotal records
\* The parsed file of a header and `total` data rows.
FileOfRows(total) == <<<<"t">>>> \o [n \in 1..total |-> <<"x">>]

\* The state startAnalysis leaves for that file, the column t mapped.
InitProgress ==
  \E total \in 1..MaxTotal :
    /\ ai = TRUE
    /\ appState = "analyzing"
    /\ error = ""
    /\ rawCsvData = FileOfRows(total)
    /\ mappedTextColumn = "t"
    /\ mappedDateColumn = ""
    /\ analysisResults = <<>>
    /\ analysisProgress = 0
    /\ isAnalyzing = TRUE
    /\ filters = EmptyObject
    /\ dateFilterStart = NoDate
    /\ dateFilterEnd = NoDate
    /\ reads = <<>>
    /\ fileText = <<>>
    /\ runs = <<StartRun(DataToAnalyze(FileOfRows(total)), 0, -1, TRUE)>>

ResolveFailed ==
  \E r \in 1..Len(runs) : AnalyzerReturns(r, [error |-> FailedMessage])

NextProgress ==
  \/ ResolveFailed
  \/ Elapse

SpecProgress == InitProgress /\ [][NextProgress]_vars

\* ---- the filter over a result list of up to MaxRecords records
\* A classified record of the columns d and e, the date column mapped: e is
\* undefined for a row that is too short, date is undefined for a cell that is
\* no date.
ResultShapes ==
  { [d |-> d, e |-> e, date |-> date,
     analysis |-> Classification("positive", "praise", <<"A", "X">>)] :
      d \in {"x", "y"}, e \in {"x", Undefined}, date \in {NoDate, 3, 4} }

InitFilter ==
  /\ ai = TRUE
  /\ appState = "results"
  /\ error = ""
  /\ rawCsvData = <<>>
  /\ mappedTextColumn = ""
  /\ mappedDateColumn = ""
  /\ \E len \in 0..MaxRecords :
       \E shapes \in [1..len -> ResultShapes] :
         analysisResults = [n \in 1..len |-> Put(shapes[n], "rowId", n + 1)]
  /\ analysisProgress = 100
  /\ isAnalyzing = FALSE
  /\ filters = EmptyObject
  /\ dateFilterStart = NoDate
  /\ dateFilterEnd = NoDate
  /\ reads = <<>>
  /\ fileText = <<>>
  /\ runs = <<>>

ChooseFilter ==
  \E dimension \in {"d", "e"}, value \in {"", "all", "x", "y"} :
    UpdateFilter(dimension, value)

ChooseStart == \E day \in {0, 1, 2} : UpdateDateFilterStart(day)

ChooseEnd == \E day \in {0, 1, 2} : UpdateDateFilterEnd(day)

NextFilter ==
  \/ ChooseFilter
  \/ ChooseStart
  \/ ChooseEnd
  \/ ResetDateFilter

SpecFilter == InitFilter /\ [][NextFilter]_vars

\* ---- the aggregates over a result list of up to MaxClassified records
TopicNames == {"A", "B", "X"}

\* The topic lists of the classifications: none, a main topic, a main topic
\* and a sub-topic; a name is a main topic here and a sub-topic there, occurs
\* twice in a list, and is the sub-topic of two main topics.
TopicLists ==
  { <<>>, <<"A">>, <<"X">>, <<"A", "A">>, <<"A", "X">>, <<"B", "X">>, <<"X", "A">> }

\* A record of the column d that failed, or that was classified.
ClassifiedShapes ==
  { [d |-> d, error |-> FailedMessage] : d \in {"x", "y"} }
  \cup { [d |-> d, analysis |-> Classification(sentiment, "praise", topics)] :
           d \in {"x", "y"}, sentiment \in {"positive", "negative"},
           topics \in TopicLists }

InitTopics ==
  /\ ai = TRUE
  /\ appState = "results"
  /\ error = ""
  /\ rawCsvData = <<>>
  /\ mappedTextColumn = ""
  /\ mappedDateColumn = ""
  /\ \E len \in 0..MaxClassified :
       \E shapes \in [1..len -> ClassifiedShapes] :
         analysisResults = [n \in 1..len |-> Put(shapes[n], "rowId", n + 1)]
  /\ analysisProgress = 100
  /\ isAnalyzing = FALSE
  /\ filters = EmptyObject
  /\ dateFilterStart = NoDate
  /\ dateFilterEnd = NoDate
  /\ reads = <<>>
  /\ fileText = <<>>
  /\ runs = <<>>

ChooseDimension == \E value \in {"all", "x", "y"} : UpdateFilter("d", value)

NextTopics ==
  \/ ChooseDimension

SpecTopics == InitTopics /\ [][NextTopics]_vars

\* ---- the trend over a result list of up to MaxDated records
\* A cell of the file where the code reads a classification: a string, none
\* of whose properties sentiment, intent and topics is defined.
CsvCell(text) == [cell |-> text]

\* What a record of the column `when`, mapped as the date column, carries
\* besides its date: a classification (a topic may be named date), the error
\* of a failed call, or that error next to a cell of a column named analysis.
DatedOutcomes ==
  { [analysis |-> Classification("positive", "praise", <<"A", "X">>)],
    [analysis |-> Classification("negative", "praise", <<"date", "A">>)],
    [error |-> FailedMessage],
    [error |-> FailedMessage, analysis |-> CsvCell("x")] }

\* The dates parseDate gave: none, the last instant of day 1, a day of the
\* next week, a day of the next month.
RecordDates == {NoDate, EndOfDay(1), StartOfDay(8), StartOfDay(32)}

InitTrend ==
  /\ ai = TRUE
  /\ appState = "results"
  /\ error = ""
  /\ rawCsvData = <<>>
  /\ mappedTextColumn = ""
  /\ mappedDateColumn = "when"
  /\ \E len \in 0..MaxDated :
       \E outcomes \in [1..len -> DatedOutcomes], dates \in [1..len -> RecordDates] :
         analysisResults =
           [n \in 1..len |-> Put(Put(outcomes[n], "date", dates[n]), "rowId", n + 1)]
  /\ analysisProgress = 100
  /\ isAnalyzing = FALSE
  /\ filters = EmptyObject
  /\ dateFilterStart = NoDate
  /\ dateFilterEnd = NoDate
  /\ reads = <<>>
  /\ fileText = <<>>
  /\ runs = <<>>

NextTrend ==
  \/ ChooseStart
  \/ ChooseEnd
  \/ ResetDateFilter

SpecTrend == InitTrend /\ [][NextTrend]_vars

\* ---- one exported cell read back: every string of up to MaxTextLen
\* characters that escapeCsvCell quotes is written as a file of that one cell,
\* and the file is loaded.
\* The test of escapeCsvCell for a string to quote.
Quoted(S) == Includes(S, ",") \/ Includes(S, "\"") \/ Includes(S, "\n")

InitCell ==
  \E n \in 0..MaxTextLen :
    \E S \in [1..n -> Chars] :
      Quoted(S) /\ Constructed(TRUE, <<EscapeCsvCell(JsString(S))>>)

NextCell ==
  \/ Onload

SpecCell == InitCell /\ [][NextCell]_vars

\* ---- the export of a result list of up to MaxExported records
\* A classification, its values as exportToCsv reads them.
ExportedAnalysis(emotions, topics, explanation) ==
  [sentiment |-> JsString(<<"p">>),
   sentiment_score |-> JsNumber(1),
   intent |-> JsString(<<"q">>),
   emotions |-> JsArray(emotions),
   topics |-> JsArray(topics),
   explanation |-> JsString(explanation),
   confidence |-> JsNumber(90),
   redacted_excerpt |-> JsString(<<>>)]

\* A failed record; a record with no emotion and one topic; a record with two
\* emotions, a topic and a sub-topic that holds a comma, and an explanation of
\* two lines.
ExportedOutcomes ==
  { [error |-> JsString(<<"e">>)],
    [analysis |-> ExportedAnalysis(<<>>, <<(<<"A">>)>>, <<"a">>)],
    [analysis |-> ExportedAnalysis(<<(<<"j">>), (<<"g">>)>>,
                                   <<(<<"A">>), (<<"X", ",", "Y">>)>>,
                                   <<"a", "\n", "a">>)] }

\* The cell of the column t: with a comma, a double quote, or undefined for a
\* row that is too short.
ExportedCells ==
  { JsString(<<"a", ",">>), JsString(<<"\"">>), JsUndefined }

ExportedShapes ==
  { Put(Put(outcome, "t", cell), "date", EndOfDay(1)) :
      outcome \in ExportedOutcomes, cell \in ExportedCells }

InitExport ==
  /\ ai = TRUE
  /\ appState = "results"
  /\ error = ""
  /\ rawCsvData = <<<<"t">>>>
  /\ mappedTextColumn = "t"
  /\ mappedDateColumn = "when"
  /\ \E len \in 0..MaxExported :
       \E shapes \in [1..len -> ExportedShapes] :
         analysisResults = [n \in 1..len |-> Put(shapes[n], "rowId", JsNumber(n + 1))]
  /\ analysisProgress = 100
  /\ isAnalyzing = FALSE
  /\ filters = EmptyObject
  /\ dateFilterStart = NoDate
  /\ dateFilterEnd = NoDate
  /\ reads = <<>>
  /\ fileText = <<>>
  /\ runs = <<>>

NextExport ==
  \/ ChooseStart
  \/ ChooseEnd
  \/ ResetDateFilter

SpecExport == InitExport /\ [][NextExport]_vars

\* ---- the ingestion of files that are blank, or not: up to MaxLoads files
\* are chosen before the first of them is loaded
\* An empty file, a file of spaces and line ends, a header alone, a header and
\* a row.
UploadTexts == { <<>>, <<" ", "\n", "\r", "\n">>, HeaderOnly, TwoRows }

ChooseFile ==
  /\ appState = "upload"
  /\ Len(reads) < MaxLoads
  /\ \E isCsv \in BOOLEAN, text \in UploadTexts : HandleFileUpload(isCsv, text)

NextUpload ==
  \/ ChooseFile
  \/ Onload
  \/ ResetApp

SpecUpload == Init /\ [][NextUpload]_vars

\* ---- one batch over every text up to MaxTextLen, its rows ragged or not
NextRows ==
  \/ Onload
  \/ UserMapText
  \/ UserStart(MaxBatches)
  \/ Resolve
  \/ Elapse

SpecRows == InitCsv /\ [][NextRows]_vars

\* ---- the date of one record, for every date cell
\* The parsed file of the columns t and when and one data row.
FileOfDate(cell) == << <<"t", "when">>, <<"x", cell>> >>

\* The state startAnalysis leaves for that file, t mapped as the text column
\* and when as the date column.
InitDate ==
  \E cs \in DateTexts \cup {<<>>} :
    /\ ai = TRUE
    /\ appState = "analyzing"
    /\ error = ""
    /\ rawCsvData = FileOfDate(Join(cs))
    /\ mappedTextColumn = "t"
    /\ mappedDateColumn = "when"
    /\ analysisResults = <<>>
    /\ analysisProgress = 0
    /\ isAnalyzing = TRUE
    /\ filters = EmptyObject
    /\ dateFilterStart = NoDate
    /\ dateFilterEnd = NoDate
    /\ reads = <<>>
    /\ fileText = <<>>
    /\ runs = <<StartRun(DataToAnalyze(FileOfDate(Join(cs))), 0, 1, TRUE)>>

NextDate ==
  \/ Resolve
  \/ Elapse

SpecDate == InitDate /\ [][NextDate]_vars

\* ----------------------------------------------------------------- claims
\* The rowIds of a sequence of records, in order.
RowIds(records) == [n \in 1..Len(records) |-> records[n].rowId]

IsPrefix(short, long) ==
  Len(short) <= Len(long) /\ short = SubSeq(long, 1, Len(short))

\* Run r is in the middle of its batch.
Live(r) == r \in 1..Len(runs) /\ ~Ended(runs[r])

\* This step ends the batch of run r: its last delay elapses, or it is
\* started on no record at all.
Completes(r) ==
  /\ r \in 1..Len(runs')
  /\ runs'[r].pc = "done"
  /\ r \in 1..Len(runs) => runs[r].pc = "delay"

\* The input of the batch that run r ends in this step.
CompletedInput(r) == IF r \in 1..Len(runs) THEN runs[r].queue ELSE <<>>

\* C1: when a batch reaches Completed, analysisResults has as many records as
\* the batch's input, and the i-th result has the rowId of the i-th input.
C1_CompletedResultsMatchInput ==
  [][\A r \in 1..MaxRuns :
       Completes(r) => RowIds(analysisResults') = RowIds(CompletedInput(r))]_vars

AppendsNextOf(r) ==
  /\ Live(r)
  /\ runs[r].pc = "analyzer"
  /\ runs[r].item = runs[r].processedCount + 1
  /\ Len(analysisResults') = Len(analysisResults) + 1
  /\ IsPrefix(analysisResults, analysisResults')
  /\ analysisResults'[Len(analysisResults')].rowId = runs[r].queue[runs[r].item].rowId
  /\ runs'[r].processedCount = runs[r].processedCount + 1

InFlight == { r \in 1..Len(runs) : runs[r].pc = "analyzer" }

\* C3: the progress emitted is round(processed / total * 100), it never
\* decreases over the run, and it is 100 only once every record is processed.
C3_ProgressHundredOnlyAtEnd ==
  \A r \in 1..Len(runs) :
    Live(r) =>
      /\ analysisProgress = Progress(runs[r].processedCount, runs[r].totalToProcess)
      /\ \A k \in 0..runs[r].processedCount :
           Progress(k, runs[r].totalToProcess) <= analysisProgress
      /\ analysisProgress = 100 => runs[r].processedCount = runs[r].totalToProcess

\* C4: at most one Analyzer call of the queue is in flight.
C4_OneCallInFlight == Cardinality(InFlight) <= 1

\* The Analyzer invocations of a batch: one for each record reached so
\* far, none for the others, never a second one.
CalledOnce(run) ==
  \A n \in 1..Len(run.queue) : run.calls[n] = IF n <= run.item THEN 1 ELSE 0

\* C5: when the Analyzer call for record i resolves to an error, the record is
\* appended as the input record plus the error marker and nothing else; the
\* batch goes on to its delay and then to record i+1 (or to its end after the
\* last record); the Analyzer is invoked once for each record.
C5_FailureKeepsBatchGoing ==
  [][\A r \in 1..Len(runs) :
       /\ (runs[r].pc = "analyzer" /\ runs'[r] # runs[r] /\ HasError(runs'[r].analysis))
            => /\ analysisResults' =
                    Append(analysisResults,
                           Put(runs[r].queue[runs[r].item], "error", runs'[r].analysis.error))
               /\ runs'[r].pc = "delay"
               /\ runs'[r].item = runs[r].item
       /\ (runs[r].pc = "delay" /\ runs'[r] # runs[r])
            => IF runs[r].item < runs[r].totalToProcess
               THEN runs'[r].pc = "analyzer" /\ runs'[r].item = runs[r].item + 1
               ELSE runs'[r].pc = "done" /\ runs[r].processedCount = runs[r].totalToProcess
       /\ Live(r) => CalledOnce(runs[r])]_vars

\* Record 1 failed, was kept with its error, and record 2 is with the Analyzer.
C5_Witness ==
  \E r \in 1..Len(runs) :
    /\ runs[r].pc = "analyzer"
    /\ runs[r].item = 2
    /\ Len(analysisResults) = 1
    /\ Get(analysisResults[1], "error") = FailedMessage
    /\ "analysis" \notin DOMAIN analysisResults[1]

\* C6: no invocation of the queue ends in a failed state, and while the
\* application is Running a step of a batch (an Analyzer call or a delay) is
\* pending, so that the batch reaches Completed once the calls and the delays
\* finish.
C6_RunningBatchCanComplete ==
  /\ \A r \in 1..Len(runs) : runs[r].pc # "rejected"
  /\ (appState = "analyzing" /\ isAnalyzing) => \E r \in 1..Len(runs) : Live(r)

\* C7: no record of the results has both a classification and an error.
C7_AnalysisOrErrorNotBoth ==
  \A n \in 1..Len(analysisResults) :
    ~("analysis" \in DOMAIN analysisResults[n] /\ Truthy(Get(analysisResults[n], "error")))

\* The 1-based numbers, in the text, of its lines that are not blank.
RECURSIVE NonBlankFrom(_, _)
NonBlankFrom(lines, n) ==
  IF n > Len(lines) THEN <<>>
  ELSE (IF NonBlank(lines[n]) THEN <<n>> ELSE <<>>) \o NonBlankFrom(lines, n + 1)

LineNumbers(text) == NonBlankFrom(SplitLines(text), 1)

\* C8: the rowId of a record is the number, in the file, of the line it was
\* parsed from (the header being line 1); the first data row has rowId 2 and
\* the rowIds increase strictly.
C8_RowIdIsLineNumber ==
  \A r \in 1..Len(runs) :
    Live(r) =>
      \A n \in 1..Len(runs[r].queue) :
        /\ runs[r].queue[n].rowId = LineNumbers(fileText)[n + 1]
        /\ n = 1 => runs[r].queue[n].rowId = 2
        /\ n > 1 => runs[r].queue[n - 1].rowId < runs[r].queue[n].rowId

\* A filter entry that is set: neither the empty string nor 'all'.
Active(value) == value # "" /\ value # "all"

\* The record passes every entry that is set and every date bound that is set.
Retained(r) ==
  /\ \A dimension \in DOMAIN filters :
       Active(filters[dimension]) => Get(r, dimension) = filters[dimension]
  /\ dateFilterStart # NoDate =>
       "date" \in DOMAIN r /\ r.date # NoDate /\ r.date >= dateFilterStart
  /\ dateFilterEnd # NoDate =>
       "date" \in DOMAIN r /\ r.date # NoDate /\ r.date <= dateFilterEnd

\* C9: filteredAnalysisResults is the subsequence, in the original order, of
\* the records that match every set entry and lie within the set date bounds;
\* a record without a date is dropped as soon as a bound is set.
C9_FilterIsSubsequenceOfMatches ==
  filteredAnalysisResults.items = SelectSeq(analysisResults, Retained)

\* An entry and both bounds are set; of two records the first, which has no
\* date, is dropped and the second is kept.
C9_Witness ==
  /\ Len(analysisResults) = 2
  /\ FilterKeys(filters) # {}
  /\ dateFilterStart # NoDate
  /\ dateFilterEnd # NoDate
  /\ analysisResults[1].date = NoDate
  /\ filteredAnalysisResults.items = <<analysisResults[2]>>

\* No entry is set and no date bound is.
NoCriteria ==
  /\ \A dimension \in DOMAIN filters : ~Active(filters[dimension])
  /\ dateFilterStart = NoDate
  /\ dateFilterEnd = NoDate

\* C10: with every entry absent, empty or 'all' and no date bound,
\* filteredAnalysisResults is the array of analysisResults itself.
C10_NoCriteriaIsIdentity ==
  NoCriteria =>
    /\ filteredAnalysisResults.same
    /\ filteredAnalysisResults.items = analysisResults

\* One entry is 'all', the other the empty string, and two records pass.
C10_Witness ==
  /\ DOMAIN filters = {"d", "e"}
  /\ filters["d"] = "all"
  /\ filters["e"] = ""
  /\ Len(analysisResults) = 2
  /\ filteredAnalysisResults.same

\* C11: filtering is idempotent: the filter applied, under the same entries
\* and date bounds, to what it returned returns the same sequence.
C11_FilterIsIdempotent ==
  Filtered(filteredAnalysisResults.items, filters, dateFilterStart,
           dateFilterEnd).items = filteredAnalysisResults.items

\* An entry and a date bound are set; of two records one is dropped and one
\* is kept.
C11_Witness ==
  /\ Len(analysisResults) = 2
  /\ FilterKeys(filters) # {}
  /\ dateFilterEnd # NoDate
  /\ Len(filteredAnalysisResults.items) = 1

\* The number of the filtered records whose first topic is the name.
WithFirstTopic(topicName) ==
  Cardinality({ i \in 1..Len(filteredAnalysisResults.items) :
                  /\ HasTopics(filteredAnalysisResults.items[i])
                  /\ filteredAnalysisResults.items[i].analysis.topics[1] = topicName })

RECURSIVE SumOfCounts(_)
SumOfCounts(nodes) ==
  IF nodes = <<>> THEN 0 ELSE Head(nodes).count + SumOfCounts(Tail(nodes))

\* C12: the count of each root node of topicTree is the number of filtered
\* records whose first topic is the node's name, and the root counts add up
\* to the number of filtered records that have a topic.
C12_RootCountIsFirstTopicCount ==
  /\ \A i \in 1..Len(topicTree) :
       topicTree[i].count = WithFirstTopic(topicTree[i].name)
  /\ SumOfCounts(topicTree) =
       Cardinality({ i \in 1..Len(filteredAnalysisResults.items) :
                       HasTopics(filteredAnalysisResults.items[i]) })

\* The filtered records whose topic list is the path.
OnPath(path) ==
  SelectSeq(filteredAnalysisResults.items,
            LAMBDA r : HasTopics(r) /\ r.analysis.topics = path)

\* The root node named m has one child named s, which counts and lists the
\* records whose path is [m, s].
HasOwnChild(m, s) ==
  \E i \in 1..Len(topicTree) :
    /\ topicTree[i].name = m
    /\ Cardinality({ j \in 1..Len(topicTree[i].subTopics) :
                       topicTree[i].subTopics[j].name = s }) = 1
    /\ \A j \in 1..Len(topicTree[i].subTopics) :
         topicTree[i].subTopics[j].name = s =>
           /\ topicTree[i].subTopics[j].responses = OnPath(<<m, s>>)
           /\ topicTree[i].subTopics[j].count = Len(OnPath(<<m, s>>))

\* C13: for every filtered record with topics [m, s], the root node named m
\* has exactly one child named s, a node of its own for the pair (m, s), whose
\* count and responses are those of the records whose path is [m, s].
C13_ChildPerParentAndName ==
  \A i \in 1..Len(filteredAnalysisResults.items) :
    LET r == filteredAnalysisResults.items[i]
    IN  (HasTopics(r) /\ Len(r.analysis.topics) = 2)
          => HasOwnChild(r.analysis.topics[1], r.analysis.topics[2])

\* The (record, position) occurrences of a topic string among those of the
\* records that have a classification.
Occurrences(records, topic) ==
  { <<i, j>> \in (1..Len(records)) \X (1..2) :
      /\ HasTopics(records[i])
      /\ j <= Len(records[i].analysis.topics)
      /\ records[i].analysis.topics[j] = topic }

\* C14: getCounts(results, 'topics') has one pair per distinct topic string,
\* its count the number of occurrences of the string over the classified
\* records (one per list position), the pairs in non-increasing order of
\* count.
C14_TopicCountsPerOccurrence ==
  LET records == filteredAnalysisResults.items
      pairs == GetCounts(records, "topics", NoSlice)
  IN  /\ \A i, j \in 1..Len(pairs) : i # j => pairs[i][1] # pairs[j][1]
      /\ { pairs[i][1] : i \in 1..Len(pairs) } =
           { topic \in TopicNames : Occurrences(records, topic) # {} }
      /\ \A i \in 1..Len(pairs) :
           pairs[i][2] = Cardinality(Occurrences(records, pairs[i][1]))
      /\ \A i \in 1..(Len(pairs) - 1) : pairs[i][2] >= pairs[i + 1][2]

\* A record with two topics counts in two buckets; the topic seen second
\* occurs twice and comes first in the result.
C14_Witness ==
  /\ Len(filteredAnalysisResults.items) = 2
  /\ HasTopics(filteredAnalysisResults.items[1])
  /\ HasTopics(filteredAnalysisResults.items[2])
  /\ filteredAnalysisResults.items[1].analysis.topics = <<"X", "A">>
  /\ filteredAnalysisResults.items[2].analysis.topics = <<"A">>
  /\ GetCounts(filteredAnalysisResults.items, "topics", NoSlice) =
       <<<<"A", 2>>, <<"X", 1>>>>

\* C15: for every topN >= 0 getCounts returns min(topN, number of distinct
\* values) pairs, those with the highest counts, in ascending order of count;
\* without topN it returns all the pairs in descending order.
C15_TopNAscending ==
  \A field \in {"sentiment", "intent", "topics"} :
    LET full == GetCounts(filteredAnalysisResults.items, field, NoSlice)
    IN  /\ \A i \in 1..(Len(full) - 1) : full[i][2] >= full[i + 1][2]
        /\ \A topN \in 0..MaxTopN :
             LET top == GetCounts(filteredAnalysisResults.items, field, topN)
             IN  /\ Len(top) = IF topN < Len(full) THEN topN ELSE Len(full)
                 /\ \A i \in 1..(Len(top) - 1) : top[i][2] <= top[i + 1][2]
                 /\ \A i \in 1..Len(top) : top[i] = full[Len(top) + 1 - i]

Periods == {"day", "week", "month"}

Groupings == {"sentiment", "intent", "topics"}

\* C16: the two views of trendData agree: for every bucket and every group
\* value, the value of the value's series at the bucket is the entry of that
\* value in the bucket's flat record, and the series is dated as the bucket.
C16_SeriesAgreeWithStacked ==
  \A period \in Periods, groupBy \in Groupings :
    LET trend == trendData(period, groupBy)
    IN  trend # Null =>
          /\ Len(trend.stackedData) = Len(trend.dates)
          /\ Len(trend.series) = Len(trend.keys)
          /\ \A k \in 1..Len(trend.keys) :
               /\ trend.series[k].name = trend.keys[k]
               /\ Len(trend.series[k].values) = Len(trend.dates)
               /\ \A i \in 1..Len(trend.dates) :
                    /\ trend.series[k].values[i].date = trend.dates[i]
                    /\ trend.series[k].values[i].value =
                         Get(trend.stackedData[i], trend.keys[k])

\* Two buckets by day and three topic values, one of them named date; the
\* value A counts 1 in each bucket in both views, and the first bucket is the
\* first instant of the day its record lies in.
C16_Witness ==
  LET trend == trendData("day", "topics")
  IN  /\ trend # Null
      /\ trend.dates = <<StartOfDay(1), StartOfDay(8)>>
      /\ trend.keys = <<"A", "X", "date">>
      /\ trend.series[1].values[2].value = 1
      /\ trend.stackedData[1]["A"] = 1

\* The record has a classification: the Analyzer's, with its sentiment,
\* intent and topics.
Classified(r) ==
  /\ "analysis" \in DOMAIN r
  /\ {"sentiment", "intent", "topics"} \subseteq DOMAIN r.analysis

\* The filtered records that have a date and a classification.
Included == SelectSeq(filteredAnalysisResults.items,
                      LAMBDA r : HasDate(r) /\ Classified(r))

\* The values of a record for a grouping: its topics, or its one sentiment
\* or intent.
ValuesFor(r, groupBy) ==
  IF groupBy = "topics" THEN r.analysis.topics ELSE <<r.analysis[groupBy]>>

\* The occurrences (record, position) of a group value among the included
\* records of a bucket.
InBucket(period, groupBy, bucket, key) ==
  { <<i, j>> \in (1..Len(Included)) \X (1..2) :
      /\ PeriodFloor(period, Included[i].date) = bucket
      /\ j <= Len(ValuesFor(Included[i], groupBy))
      /\ ValuesFor(Included[i], groupBy)[j] = key }

\* C17: trendData uses the records that have a date and a classification and
\* no other: its buckets are the truncated dates of those records, in strictly
\* ascending order, its universe the distinct values of those records, and the
\* count of every bucket and value is the number of occurrences of the value
\* among the records of the bucket, 0 when there is none.
C17_BucketsCountIncludedRecords ==
  \A period \in Periods, groupBy \in Groupings :
    LET trend == trendData(period, groupBy)
    IN  /\ trend = Null => Included = <<>>
        /\ trend # Null =>
             /\ { trend.dates[i] : i \in 1..Len(trend.dates) } =
                  { PeriodFloor(period, Included[i].date) : i \in 1..Len(Included) }
             /\ \A i \in 1..(Len(trend.dates) - 1) : trend.dates[i] < trend.dates[i + 1]
             /\ { trend.keys[k] : k \in 1..Len(trend.keys) } =
                  { ValuesFor(Included[i], groupBy)[j] :
                      <<i, j>> \in { <<i, j>> \in (1..Len(Included)) \X (1..2) :
                                       j <= Len(ValuesFor(Included[i], groupBy)) } }
             /\ \A i \in 1..Len(trend.dates), k \in 1..Len(trend.keys) :
                  /\ trend.keys[k] \in DOMAIN trend.stackedData[i]
                  /\ trend.stackedData[i][trend.keys[k]] =
                       Cardinality(InBucket(period, groupBy, trend.dates[i], trend.keys[k]))

\* C18: a string with a comma, a double quote or a newline, written as one
\* cell by escapeCsvCell and read by parseCsv, comes back as one row of one
\* field equal to the string.
C18_EscapedCellParsesBack ==
  \A n \in 0..MaxTextLen :
    \A S \in [1..n -> Chars] :
      (Quoted(S) /\ reads = <<>> /\ fileText = EscapeCsvCell(JsString(S)))
        => rawCsvData = <<<<Join(S)>>>>

\* The cells the claim gives the data row of a record: its rowId, its cell
\* under every header, and its eight classification values, emotions and
\* topics joined by pipes, or eight empty strings.
ExpectedCells(r) ==
  <<r.rowId>>
  \o [i \in 1..Len(Headers(rawCsvData)) |-> Property(r, Headers(rawCsvData)[i])]
  \o (IF "analysis" \in DOMAIN r
      THEN <<r.analysis.sentiment, r.analysis.sentiment_score, r.analysis.intent,
             JsString(JoinWith(r.analysis.emotions.items, "|")),
             JsString(JoinWith(r.analysis.topics.items, "|")),
             r.analysis.explanation, r.analysis.confidence,
             r.analysis.redacted_excerpt>>
      ELSE [i \in 1..8 |-> JsString(<<>>)])

\* The file has the header row and one data row per filtered record, in
\* filtered order, of the expected cells, escaped and joined by commas.
ExportedAsClaimed ==
  /\ exportToCsv.download
  /\ Len(exportToCsv.csvRows) = 1 + Len(filteredAnalysisResults.items)
  /\ exportToCsv.csvRows[1] =
       "rowId,t,sentiment,sentiment_score,intent,emotions,topics,explanation,confidence,redacted_excerpt"
  /\ \A n \in 1..Len(filteredAnalysisResults.items) :
       /\ Len(ExpectedCells(filteredAnalysisResults.items[n])) =
            1 + Len(Headers(rawCsvData)) + 8
       /\ exportToCsv.csvRows[n + 1] =
            Join(JoinWith([i \in 1..Len(ExpectedCells(filteredAnalysisResults.items[n])) |->
                             EscapeCsvCell(ExpectedCells(filteredAnalysisResults.items[n])[i])],
                          ","))
  /\ exportToCsv.csvContent = JoinStrings(exportToCsv.csvRows, "\n")

\* C19 as stated: for any filtered record sequence exportToCsv produces the
\* header row and one data row per record, of 1 + |headers| + 8 cells.
C19_ExportForAnySequence == ExportedAsClaimed

\* C19 as amended: for a filtered record sequence that is not empty
\* exportToCsv produces the header row and one data row per record; for the
\* empty sequence it produces no file.
C19_ExportUnlessEmpty ==
  IF filteredAnalysisResults.items = <<>>
  THEN exportToCsv = NoDownload
  ELSE ExportedAsClaimed

\* A failed record with a quoted cell and a classified record with two
\* emotions and a topic that holds a comma are exported as two data rows.
C19_Witness ==
  /\ Len(filteredAnalysisResults.items) = 2
  /\ "analysis" \notin DOMAIN filteredAnalysisResults.items[1]
  /\ exportToCsv.download
  /\ exportToCsv.csvRows[2] = "2,\"a,\",,,,,,,,"
  /\ exportToCsv.csvRows[3] = "3,\"\"\"\",p,1,q,j|g,\"A|X,Y\",\"a\na\",90,"

\* The text has no line that is not blank: it is made of spaces and line ends.
BlankText(text) == \A i \in 1..Len(text) : text[i] \in Whitespace

\* This step is the end of the n-th pending load.
LoadEnds(n) ==
  /\ n \in 1..Len(reads)
  /\ reads' = SubSeq(reads, 1, n - 1) \o SubSeq(reads, n + 1, Len(reads))
  /\ fileText' = reads[n]

\* C20: the load of a text with no non-blank line sets a descriptive error,
\* leaves the application in the upload state and leaves rawCsvData as it was;
\* the mapping state is entered only by the load of a text that parsed to at
\* least a header row.
C20_BlankFileIsRejected ==
  [][/\ \A n \in 1..Len(reads) :
          (LoadEnds(n) /\ BlankText(reads[n]))
            => /\ error' = EmptyFileMessage
               /\ appState' = "upload"
               /\ rawCsvData' = rawCsvData
     /\ (appState' = "mapping" /\ appState # "mapping")
          => /\ \E n \in 1..Len(reads) : LoadEnds(n) /\ ~BlankText(reads[n])
             /\ rawCsvData' = ParseCsv(fileText')
             /\ Len(rawCsvData') > 0]_vars

\* A blank file was loaded after a file that parsed: the error is shown, the
\* view is the upload view and the data of the earlier file are still there.
C20_Witness ==
  /\ BlankText(fileText)
  /\ error = EmptyFileMessage
  /\ appState = "upload"
  /\ rawCsvData # <<>>

\* Some row of the parsed file has more or fewer fields than the header row.
Ragged(raw) == \E n \in 2..Len(raw) : Len(raw[n]) # Len(raw[1])

HeaderNames(raw) == { Headers(raw)[i] : i \in 1..Len(Headers(raw)) }

\* The cell of a row in the column named header: the last column of that
\* name, undefined when the row ends before it.
CellUnder(headers, row, header) ==
  LET last == CHOOSE i \in 1..Len(headers) :
                /\ headers[i] = header
                /\ \A j \in (i + 1)..Len(headers) : headers[j] # header
  IN  IF last <= Len(row) THEN row[last] ELSE Undefined

\* C21: a file with ragged rows is loaded like any other (no error, the
\* mapping view, every row kept as parsed); the record startAnalysis builds
\* from a row has the header names and rowId as its keys, a header past the
\* end of a short row holding undefined; and the Analyzer's answer for such a
\* record appends it with its classification or its error.
C21_RaggedRowsAreRecords ==
  [][/\ (Len(reads') < Len(reads) /\ ParseCsv(fileText') # <<>>)
          => /\ rawCsvData' = ParseCsv(fileText')
             /\ appState' = "mapping"
             /\ error' = error
     /\ (Len(runs') = Len(runs) + 1 /\ Rows(rawCsvData) # <<>>)
          => LET queue == runs'[Len(runs')].queue
             IN  /\ Len(queue) = Len(Rows(rawCsvData))
                 /\ \A n \in 1..Len(queue) :
                      /\ DOMAIN queue[n] = HeaderNames(rawCsvData) \cup {"rowId"}
                      /\ \A header \in HeaderNames(rawCsvData) :
                           queue[n][header] =
                             CellUnder(Headers(rawCsvData), Rows(rawCsvData)[n], header)
     /\ \A r \in 1..Len(runs) :
          (runs[r].pc = "analyzer" /\ runs'[r].pc = "delay")
            => LET item == runs[r].queue[runs[r].item]
                   last == analysisResults'[Len(analysisResults')]
               IN  /\ Len(analysisResults') = Len(analysisResults) + 1
                   /\ IsPrefix(analysisResults, analysisResults')
                   /\ \A key \in DOMAIN item : last[key] = item[key]
                   /\ \/ DOMAIN last = DOMAIN item \cup {"analysis"}
                      \/ DOMAIN last = DOMAIN item \cup {"error"}]_vars

\* A row shorter than the header row was classified: its record holds
\* undefined under a header and carries the classification.
C21_Witness ==
  /\ Ragged(rawCsvData)
  /\ \E n \in 1..Len(analysisResults) :
       /\ "analysis" \in DOMAIN analysisResults[n]
       /\ \E key \in HeaderNames(rawCsvData) : analysisResults[n][key] = Undefined

RECURSIVE RolesFrom(_, _, _)
\* What each character of a line is, read from the left, `quoted` being the
\* mode before position i: a comma outside quoted mode separates, a quote
\* followed by a quote in quoted mode is dropped and the quote after it is
\* literal, any other quote toggles the mode, anything else is literal.
RolesFrom(line, i, quoted) ==
  IF i > Len(line) THEN <<>>
  ELSE IF line[i] = "\"" /\ quoted /\ i < Len(line) /\ line[i + 1] = "\""
    THEN <<"dropped", "literal">> \o RolesFrom(line, i + 2, quoted)
  ELSE IF line[i] = "\""
    THEN <<"toggle">> \o RolesFrom(line, i + 1, ~quoted)
  ELSE IF line[i] = "," /\ ~quoted
    THEN <<"separator">> \o RolesFrom(line, i + 1, quoted)
  ELSE <<"literal">> \o RolesFrom(line, i + 1, quoted)

Roles(line) == RolesFrom(line, 1, FALSE)

\* The positions of the separating commas, in order, between 0 and the
\* position after the line's end.
Cuts(line) ==
  LET at == { i \in 1..Len(line) : Roles(line)[i] = "separator" }
      RECURSIVE Sorted(_, _)
      Sorted(i, rest) ==
        IF i > Len(line) THEN rest
        ELSE Sorted(i + 1, IF i \in at THEN Append(rest, i) ELSE rest)
  IN  <<0>> \o Sorted(1, <<>>) \o <<Len(line) + 1>>

\* The literal characters of a line between two positions, in order.
LiteralsBetween(line, from, to) ==
  LET RECURSIVE Gather(_, _)
      Gather(i, field) ==
        IF i >= to THEN field
        ELSE Gather(i + 1, IF Roles(line)[i] = "literal"
                           THEN Append(field, line[i]) ELSE field)
  IN  Gather(from + 1, <<>>)

\* The fields the claim gives a line: one per stretch between separating
\* commas, made of the stretch's literal characters, trimmed.
ClaimedFields(line) ==
  [k \in 1..(Len(Cuts(line)) - 1) |->
     Join(Trim(LiteralsBetween(line, Cuts(line)[k], Cuts(line)[k + 1])))]

\* C22: every row of a loaded file is its line split at exactly the commas
\* outside quoted mode, a doubled quote in quoted mode giving one quote, the
\* commas inside quotes kept and the toggling quotes left out.
C22_FieldsSplitOutsideQuotes ==
  (reads = <<>> /\ rawCsvData # <<>>)
    => LET lines == SelectSeq(SplitLines(fileText), NonBlank)
       IN  /\ Len(rawCsvData) = Len(lines)
           /\ \A n \in 1..Len(lines) : rawCsvData[n] = ClaimedFields(lines[n])

\* The file "a," in quotes then ,a: the first field keeps its comma and
\* loses its quotes; and the file of four quotes is the field of one quote.
C22_Witness ==
  /\ reads = <<>>
  /\ \/ fileText = <<"\"", ",", "\"", ",">> /\ rawCsvData = << <<",", "">> >>
     \/ fileText = <<"\"", "\"", "\"", "\"">> /\ rawCsvData = << <<"\"">> >>

\* C23: when the Analyzer call of a batch ends, the batch appends that
\* record and starts a delay without moving on; a batch issues the call for
\* its next record only in the step that completes a delay, the record before
\* it already appended.
C23_DelayBetweenCalls ==
  [][\A r \in 1..Len(runs) :
       /\ (runs[r].pc = "analyzer" /\ runs'[r] # runs[r])
            => /\ runs'[r].pc = "delay"
               /\ runs'[r].item = runs[r].item
               /\ runs'[r].processedCount = runs[r].item
               /\ Len(analysisResults') = Len(analysisResults) + 1
               /\ analysisResults'[Len(analysisResults')].rowId =
                    runs[r].queue[runs[r].item].rowId
       /\ (runs'[r].pc = "analyzer" /\ runs'[r].item # runs[r].item)
            => /\ runs[r].pc = "delay"
               /\ runs'[r].item = runs[r].item + 1
               /\ runs[r].processedCount = runs[r].item]_vars

\* The delay after record 1 has completed and the call for record 2 is out.
C23_Witness ==
  \E r \in 1..Len(runs) :
    /\ runs[r].pc = "analyzer"
    /\ runs[r].item = 2
    /\ runs[r].processedCount = 1
    /\ runs[r].calls = <<1, 1>>

\* Day `day` of month `month` is a date of the calendar of `year`.
ValidCalendarDate(year, month, day) ==
  month \in 1..12 /\ day \in 1..DaysInMonth(year, month)

\* The date the claim gives the groups of a string the general parse
\* rejected: the month/day/year reading when it is a calendar date, else the
\* day/month/year reading when that is one, else absent.
ClaimedDate(first, second, year) ==
  IF ValidCalendarDate(year, first, second) THEN DateOf(year, first - 1, second)
  ELSE IF ValidCalendarDate(year, second, first) THEN DateOf(year, second - 1, first)
  ELSE NoDate

\* C24: a record whose date cell the general parse rejected and the numeric
\* pattern matches has the month/day/year date when that is a calendar date,
\* else the day/month/year date when that is one, else no date.
C24_NumericDateReadings ==
  \A r \in 1..Len(runs) :
    LET run == runs[r]
        parts == Match(Characters(run.queue[run.item].when))
    IN  (run.pc = "delay" /\ run.d = InvalidDate /\ parts # <<>>)
          => analysisResults[Len(analysisResults)].date =
               ClaimedDate(ParseInt(parts[1]), ParseInt(parts[2]), ParseInt(parts[3]))

\* The application as resetApp leaves it.
IsReset ==
  /\ analysisResults = <<>>
  /\ analysisProgress = 0
  /\ ~isAnalyzing
  /\ appState = "upload"

\* This step is one of a batch already started (an Analyzer call resolves
\* or a delay elapses), not an action of the user.
BatchStep == runs' # runs /\ Len(runs') = Len(runs)

\* C25: once reset, the application stays reset while the user does nothing:
\* no step of a batch changes analysisResults, analysisProgress, isAnalyzing
\* or appState, also for a batch that was running when resetApp was called.
C25_ResetStaysReset ==
  [][(IsReset /\ BatchStep) => IsReset']_vars

\* C26: the step that brings a batch to Completed leaves analysisProgress at
\* 100, whatever the number of records, none included.
C26_CompletedAtHundred ==
  [][\A r \in 1..MaxBatches :
       (Completes(r) /\ appState' = "results") => analysisProgress' = 100]_vars

=============================================================================
